---- MODULE Spec2Model ----
(***************************************************************************)
(* The build-time pipeline of the digital garden: generateBacklinks        *)
(* (Step 9), generateSearchIndex (Step 10) and generateGraphData (Step 11) *)
(* run one after the other by the package.json "build" script, over the    *)
(* corpus of the notes and concepts collections.                           *)
(*                                                                         *)
(* A title or a link text is a sequence of one-character strings, so that  *)
(* String.prototype.toLowerCase is computed character by character.  A     *)
(* document body is the sequence of its [[...]] markers in document order; *)
(* each marker carries the text between the brackets and whether it lies   *)
(* inside a fenced code block.  Content.toString() is taken to be the text *)
(* of the body, as the comment beside it says.                             *)
(*                                                                         *)
(* Beside the build: the draft of generateBacklinks in the plan, a script  *)
(* that fails, the search input of Search.astro over the built index, and  *)
(* the Backlinks section of a rendered page.  Each has a specification of  *)
(* its own next to Spec.  So have the parts of the site that do not read   *)
(* the build: the theme toggle, the remarkInternalLinks transform of one   *)
(* paragraph, the tag pages, and the search box while its index loads.     *)
(***************************************************************************)
EXTENDS Integers, Sequences, FiniteSets, TLC

VARIABLES
  corpus,          \* the content entries on disk, notes before concepts
  strict,          \* the strict/lenient flag of the invocation; no script reads it
  pc,              \* position of the build script
  idx,             \* index of the entry the running loop is at
  titleToSlugMap,  \* generateBacklinks: Map title.toLowerCase() -> slug
  backlinks,       \* generateBacklinks: { targetSlug: [sourceSlug, ...] }
  warnings,        \* console.warn lines of the running build
  nodes,           \* generateGraphData: nodes
  edges,           \* generateGraphData: edges
  slugToTitleMap,  \* generateGraphData: Map title.toLowerCase() -> id
  backlinksJson,   \* src/data/backlinks.json
  searchIndexJson, \* src/data/search-index.json
  graphDataJson,   \* src/data/graph-data.json
  prevArtifacts,   \* the three files as the previous build left them
  page,            \* the page rendered last: its entry and its Backlinks section
  searchInput,     \* Search.astro: the value of the search input
  searchResultsDiv, \* Search.astro: the result list under the search input
  searchIndex,     \* Search.astro: let searchIndex, null until the index is loaded
  debounceTimeout, \* Search.astro: a debounce timer is pending
  classListDark,   \* ThemeToggle: document.documentElement has the class dark
  localStorageTheme, \* ThemeToggle: localStorage.getItem('theme')
  prefersDark,     \* ThemeToggle: matchMedia('(prefers-color-scheme: dark)').matches
  themeEvents,     \* the page loads and toggle clicks so far, oldest first
  tree,            \* remarkInternalLinks: the children of the parent being walked
  cursor,          \* remarkInternalLinks: where unist-util-visit stands in the tree
  inputTree,       \* remarkInternalLinks: the children as the parser left them
  visits,          \* remarkInternalLinks: the calls of the visitor so far
  tagsIndexPage,   \* /tags: the tags and counts the index page lists
  tagPage          \* /tags/<tag>: the tag page rendered last

vars == <<corpus, strict, pc, idx, titleToSlugMap, backlinks, warnings,
          nodes, edges, slugToTitleMap,
          backlinksJson, searchIndexJson, graphDataJson, prevArtifacts,
          page, searchInput, searchResultsDiv, searchIndex, debounceTimeout,
          classListDark, localStorageTheme, prefersDark, themeEvents,
          tree, cursor, inputTree, visits, tagsIndexPage, tagPage>>

\* The state of the theme toggle, of the markdown transform, of the tag pages
\* and of the client side of the search box.
themeVars == <<classListDark, localStorageTheme, prefersDark, themeEvents>>
remarkVars == <<tree, cursor, inputTree, visits>>
tagVars == <<tagsIndexPage, tagPage>>
uiVars == <<searchIndex, debounceTimeout>>
siteVars == <<themeVars, remarkVars, tagVars>>

\* Everything the build scripts and the page renderer read or write.
buildVars == <<corpus, strict, pc, idx, titleToSlugMap, backlinks, warnings,
               nodes, edges, slugToTitleMap,
               backlinksJson, searchIndexJson, graphDataJson, prevArtifacts, page>>

\* ------------------------------------------------------------------ bounds

MaxDocs == 2
MaxRefs == 2
MaxOccurrences == 11
MaxEvents == 6
MaxChunks == 3
MaxVisits == 3
MaxTags == 2

\* ------------------------------------------------------------------ inputs

Undefined == "undefined"
\* A file of src/data: absent, or written with some content.
NoFile == <<>>
FileOf(content) == <<content>>
ContentOf(file) == file[1]

Slugs == {"a", "b"}
\* Slugs of files named after their title (foo.md) and not (a.md).
NamedSlugs == {"a", "foo"}
Collections == {"notes", "concepts"}
Foo == <<"F", "o", "o">>
foo == <<"f", "o", "o">>
Bar == <<"B", "a", "r">>
Titles == {Foo, foo, Bar}
LinkTexts == {Foo, Bar}

\* A title of two words, and the same words written in lower case and with
\* two blanks between them.
FSpaceO == <<"F", " ", "o">>
fSpaceO == <<"f", " ", "o">>
FSpaceSpaceO == <<"F", " ", " ", "o">>
SpacedTitles == {FSpaceO, Bar}
SpacedLinkTexts == {fSpaceO, FSpaceSpaceO}

\* The [[...]] markers of a body: outside code blocks only, or anywhere.
PlainMarkers == [text : LinkTexts, fenced : {FALSE}]
AnyMarkers == [text : LinkTexts, fenced : BOOLEAN]
SpacedMarkers == [text : SpacedLinkTexts, fenced : {FALSE}]
DraftMarkers == [text : {Foo, Bar, FSpaceSpaceO}, fenced : {FALSE}]

BodiesOf(markers) == UNION {[1..n -> markers] : n \in 0..MaxRefs}

\* An entry of a content collection: its slug and collection, its frontmatter
\* and its body.
Entry(id, title, body) ==
  [slug |-> id.slug, collection |-> id.collection, title |-> title,
   description |-> Undefined, summary |-> Undefined, tags |-> <<>>, body |-> body]

\* A collection holds one entry per slug; the list has the notes first.
IdListsOver(n, slugSet) ==
  {ids \in [1..n -> [slug : slugSet, collection : Collections]] :
     \A i, j \in 1..n :
       i < j => /\ ids[i] # ids[j]
                /\ ~(ids[i].collection = "concepts" /\ ids[j].collection = "notes")}

IdLists(n) == IdListsOver(n, Slugs)

\* The optional text of the frontmatter: missing, empty or given.
OptionalTexts == {Undefined, "", "about"}

\* The entry with its optional field: description for a note, summary for a
\* concept.
WithOptional(e, text) ==
  IF e.collection = "notes" THEN [e EXCEPT !.description = text]
  ELSE [e EXCEPT !.summary = text]

\* The tags a note may give: nothing (no tags key, or an empty array, which
\* every reader of tags treats alike) or up to MaxTags tags.  The schema of
\* concepts has no tags.
TagNames == {Foo, foo, Bar}
TagLists == UNION {[1..n -> TagNames] : n \in 0..MaxTags}
WithTags(e, tagList) ==
  IF e.collection = "notes" THEN [e EXCEPT !.tags = tagList] ELSE e

RECURSIVE TotalRefs(_)
TotalRefs(bodies) ==
  IF bodies = <<>> THEN 0 ELSE Len(Head(bodies)) + TotalRefs(Tail(bodies))

\* The bodies of n entries that hold at most MaxRefs markers between them.
BodyLists(n, markers) ==
  {bodies \in [1..n -> BodiesOf(markers)] : TotalRefs(bodies) <= MaxRefs}

\* c is a corpus of at most MaxDocs entries with the given slugs and titles
\* and with bodies over the given markers.
IsCorpusFrom(c, slugSet, titleSet, markers) ==
  \E n \in 0..MaxDocs :
    \E bodies \in BodyLists(n, markers) :
      \E ids \in IdListsOver(n, slugSet) :
        \E titles \in [1..n -> titleSet] :
          c = [k \in 1..n |-> Entry(ids[k], titles[k], bodies[k])]

IsCorpusOver(c, titleSet, markers) == IsCorpusFrom(c, Slugs, titleSet, markers)

IsCorpusOf(c, markers) == IsCorpusOver(c, Titles, markers)

\* ------------------------------------------------------------- primitives

\* String.prototype.toLowerCase, one character at a time.
LowerChar(ch) ==
  CASE ch = "F" -> "f"
    [] ch = "B" -> "b"
    [] OTHER -> ch

ToLowerCase(s) == [k \in DOMAIN s |-> LowerChar(s[k])]

\* getCollection(name): the entries of one collection, in corpus order.
GetCollection(name) == SelectSeq(corpus, LAMBDA e : e.collection = name)

\* const allContent = [...notes, ...concepts]
AllContent == GetCollection("notes") \o GetCollection("concepts")

\* Map.prototype.set: a later set of the same key replaces the value.
MapSet(m, key, value) == (key :> value) @@ m

\* Map.prototype.get: undefined for a missing key.
MapGet(m, key) == IF key \in DOMAIN m THEN m[key] ELSE Undefined

\* A test that lets every value through.
TruthyAlways(v) == TRUE

\* if (targetSlug): undefined and the empty string are falsy.
Truthy(v) == v # Undefined /\ v # ""

\* regex.exec loop of /\[\[(.*?)\]\]/g over textContent: match[1] of every
\* marker of the text, in order, fenced or not.
RegexMatches(textContent) == [k \in DOMAIN textContent |-> textContent[k].text]

EmptyMap == <<>>

\* The runs of blanks of a text, each taken as one blank (the \s+ of a regex).
RECURSIVE CollapseWhitespace(_)
CollapseWhitespace(s) ==
  IF Len(s) <= 1 THEN s
  ELSE IF s[1] = " " /\ s[2] = " " THEN CollapseWhitespace(Tail(s))
  ELSE <<s[1]>> \o CollapseWhitespace(Tail(s))

\* The string of a sequence of characters.
RECURSIVE JoinChars(_)
JoinChars(s) == IF s = <<>> THEN "" ELSE Head(s) \o JoinChars(Tail(s))

Range(s) == {s[k] : k \in DOMAIN s}

\* A loop that stops one entry short of the end of the list.
ForEachDoneOneShort(i) == i >= Len(AllContent) - 1

\* A loop over allContent has run its last iteration once it has handled entry i.
ForEachDone(i) == i >= Len(AllContent)

\* The position a loop over allContent starts at: the loop when there is an
\* entry to visit, what follows it when there is none.
EnterLoop(loopPc, afterPc) == IF Len(AllContent) = 0 THEN afterPc ELSE loopPc

\* ------------------------------------------------------ generateBacklinks

\* titleToSlugMap.set(entry.data.title.toLowerCase(), entry.slug)
SetTitle(m, entry) == MapSet(m, ToLowerCase(entry.title), entry.slug)

\* The same push with the two slugs taken the other way round: the target is
\* filed under the source.
PushBacklinkSwapped(bl, targetSlug, sourceSlug) ==
  LET withKey == IF \E k \in DOMAIN bl : bl[k].key = sourceSlug
                 THEN bl
                 ELSE Append(bl, [key |-> sourceSlug, sources |-> <<>>])
      pos == CHOOSE k \in DOMAIN withKey : withKey[k].key = sourceSlug
  IN IF targetSlug \in Range(withKey[pos].sources)
     THEN withKey
     ELSE [withKey EXCEPT ![pos].sources = Append(@, targetSlug)]

\* The same push without the includes test.
PushBacklinkEveryTime(bl, targetSlug, sourceSlug) ==
  LET withKey == IF \E k \in DOMAIN bl : bl[k].key = targetSlug
                 THEN bl
                 ELSE Append(bl, [key |-> targetSlug, sources |-> <<>>])
      pos == CHOOSE k \in DOMAIN withKey : withKey[k].key = targetSlug
  IN [withKey EXCEPT ![pos].sources = Append(@, sourceSlug)]

\* if (!backlinks[t]) backlinks[t] = [];
\* if (!backlinks[t].includes(s)) backlinks[t].push(s);
\* The object is kept as the list of its properties in insertion order.
PushBacklink(bl, targetSlug, sourceSlug) ==
  LET withKey == IF \E k \in DOMAIN bl : bl[k].key = targetSlug
                 THEN bl
                 ELSE Append(bl, [key |-> targetSlug, sources |-> <<>>])
      pos == CHOOSE k \in DOMAIN withKey : withKey[k].key = targetSlug
  IN IF sourceSlug \in Range(withKey[pos].sources)
     THEN withKey
     ELSE [withKey EXCEPT ![pos].sources = Append(@, sourceSlug)]

\* A warning that prints the link text as it was looked up, not as written.
UnresolvedWarningLowered(linkedTitle, slug) ==
  [kind |-> "unresolved", linkedTitle |-> ToLowerCase(linkedTitle), slug |-> slug]

\* console.warn(`Warning: Unresolved internal link '[[${linkedTitle}]]' in ${entry.slug}`)
UnresolvedWarning(linkedTitle, slug) ==
  [kind |-> "unresolved", linkedTitle |-> linkedTitle, slug |-> slug]

\* The while loop over the matches of one entry: acc is the backlinks object
\* and the console so far.
RECURSIVE BacklinksOfMatches(_, _, _, _)
BacklinksOfMatches(acc, matches, entry, m) ==
  IF matches = <<>> THEN acc
  ELSE LET linkedTitle == Head(matches)
           targetSlug == MapGet(m, ToLowerCase(linkedTitle))
           next == IF Truthy(targetSlug)
                   THEN [acc EXCEPT !.backlinks = PushBacklink(@, targetSlug, entry.slug)]
                   ELSE [acc EXCEPT !.warnings =
                           Append(@, UnresolvedWarning(linkedTitle, entry.slug))]
       IN BacklinksOfMatches(next, Tail(matches), entry, m)

\* The backlinks script starts: new Map(), backlinks = {}.
StartBacklinks ==
  /\ pc = "idle"
  /\ pc' = EnterLoop("bl_titles", "bl_write")
  /\ idx' = 1
  /\ titleToSlugMap' = EmptyMap
  /\ backlinks' = <<>>
  /\ warnings' = <<>>
  /\ prevArtifacts' = <<backlinksJson, searchIndexJson, graphDataJson>>
  /\ UNCHANGED <<siteVars, uiVars, corpus, strict, page, searchInput, searchResultsDiv, nodes, edges,
                 slugToTitleMap, backlinksJson, searchIndexJson, graphDataJson>>

\* One iteration of allContent.forEach(entry => titleToSlugMap.set(...)).
BacklinksSetTitle ==
  /\ pc = "bl_titles"
  /\ titleToSlugMap' = SetTitle(titleToSlugMap, AllContent[idx])
  /\ IF ForEachDone(idx)
     THEN pc' = "bl_links" /\ idx' = 1
     ELSE pc' = pc /\ idx' = idx + 1
  /\ UNCHANGED <<siteVars, uiVars, corpus, strict, page, searchInput, searchResultsDiv, backlinks, warnings, nodes, edges,
                 slugToTitleMap, backlinksJson, searchIndexJson, graphDataJson,
                 prevArtifacts>>

\* One iteration of for (const entry of allContent): render, then the regex loop.
BacklinksResolveEntry ==
  /\ pc = "bl_links"
  /\ LET entry == AllContent[idx]
         out == BacklinksOfMatches([backlinks |-> backlinks, warnings |-> warnings],
                                   RegexMatches(entry.body), entry, titleToSlugMap)
     IN /\ backlinks' = out.backlinks
        /\ warnings' = out.warnings
  /\ IF ForEachDone(idx)
     THEN pc' = "bl_write" /\ idx' = 1
     ELSE pc' = pc /\ idx' = idx + 1
  /\ UNCHANGED <<siteVars, uiVars, corpus, strict, page, searchInput, searchResultsDiv, titleToSlugMap, nodes,
                 edges, slugToTitleMap, backlinksJson, searchIndexJson,
                 graphDataJson, prevArtifacts>>

\* A script that writes no file when it found no backlink.
BacklinksWriteUnlessEmpty ==
  /\ pc = "bl_write"
  /\ backlinksJson' = IF backlinks = <<>> THEN backlinksJson ELSE FileOf(backlinks)
  /\ pc' = "si"
  /\ idx' = 1
  /\ UNCHANGED <<siteVars, uiVars, corpus, strict, page, searchInput, searchResultsDiv, titleToSlugMap,
                 backlinks, warnings, nodes, edges, slugToTitleMap, searchIndexJson,
                 graphDataJson, prevArtifacts>>

\* fs.writeFile(outputPath, JSON.stringify(backlinks, null, 2)); the next
\* script of the && chain follows.
BacklinksWrite ==
  /\ pc = "bl_write"
  /\ backlinksJson' = FileOf(backlinks)
  /\ pc' = "si"
  /\ idx' = 1
  /\ UNCHANGED <<siteVars, uiVars, corpus, strict, page, searchInput, searchResultsDiv, titleToSlugMap, backlinks, warnings,
                 nodes, edges, slugToTitleMap, searchIndexJson, graphDataJson,
                 prevArtifacts>>

\* ------------------------------- generateBacklinks, the draft of the plan

\* linkedTitle.toLowerCase().replace(/\s+/g, '-')
Slugify(linkedTitle) ==
  LET collapsed == CollapseWhitespace(ToLowerCase(linkedTitle))
  IN JoinChars([k \in DOMAIN collapsed |->
                  IF collapsed[k] = " " THEN "-" ELSE collapsed[k]])

\* The while loop of the draft over the matches of one entry: every match is
\* filed under its slugified text.
RECURSIVE DraftBacklinksOfMatches(_, _, _)
DraftBacklinksOfMatches(bl, matches, entry) ==
  IF matches = <<>> THEN bl
  ELSE DraftBacklinksOfMatches(PushBacklink(bl, Slugify(Head(matches)), entry.slug),
                               Tail(matches), entry)

\* The draft starts: backlinks = {}; it builds no title map.
DraftStartBacklinks ==
  /\ pc = "idle"
  /\ pc' = EnterLoop("draft_links", "bl_write")
  /\ idx' = 1
  /\ backlinks' = <<>>
  /\ warnings' = <<>>
  /\ prevArtifacts' = <<backlinksJson, searchIndexJson, graphDataJson>>
  /\ UNCHANGED <<siteVars, uiVars, corpus, strict, page, searchInput, searchResultsDiv, titleToSlugMap, nodes, edges,
                 slugToTitleMap, backlinksJson, searchIndexJson, graphDataJson>>

\* One iteration of for (const entry of allContent) of the draft.
DraftBacklinksResolveEntry ==
  /\ pc = "draft_links"
  /\ LET entry == AllContent[idx]
     IN backlinks' = DraftBacklinksOfMatches(backlinks, RegexMatches(entry.body), entry)
  /\ IF ForEachDone(idx)
     THEN pc' = "bl_write" /\ idx' = 1
     ELSE pc' = pc /\ idx' = idx + 1
  /\ UNCHANGED <<siteVars, uiVars, corpus, strict, page, searchInput, searchResultsDiv, titleToSlugMap, warnings, nodes,
                 edges, slugToTitleMap, backlinksJson, searchIndexJson,
                 graphDataJson, prevArtifacts>>

\* ------------------------------------------------------- a script that fails

\* The running script rejects (entry.render(), fs.mkdir or fs.writeFile
\* throws): node exits with an error and the && chain runs nothing more.
ScriptFails ==
  /\ pc # "idle"
  /\ pc' = "idle"
  /\ UNCHANGED <<siteVars, uiVars, corpus, strict, page, searchInput, searchResultsDiv, idx, titleToSlugMap,
                 backlinks, warnings, nodes, edges, slugToTitleMap, backlinksJson,
                 searchIndexJson, graphDataJson, prevArtifacts>>

\* ---------------------------------------------------- generateSearchIndex

\* The same without the last alternative: description || summary.
DescriptionOfNoDefault(entry) ==
  IF Truthy(entry.description) THEN entry.description ELSE entry.summary

\* const description = entry.data.description || entry.data.summary || ''
DescriptionOf(entry) ==
  IF Truthy(entry.description) THEN entry.description
  ELSE IF Truthy(entry.summary) THEN entry.summary
  ELSE ""

\* `/${entry.collection}/${entry.slug}`
UrlOf(collection, slug) == "/" \o collection \o "/" \o slug

\* documents.push({id, title, description, content})
SearchDocument(entry) ==
  [id |-> entry.slug, title |-> entry.title, description |-> DescriptionOf(entry),
   content |-> entry.body]

\* store[id] = {title, description, url}: an assignment to an existing
\* property replaces its value and keeps its place.
StoreSet(st, id, value) ==
  IF \E k \in DOMAIN st : st[k].key = id
  THEN [k \in DOMAIN st |-> IF st[k].key = id THEN [key |-> id, value |-> value] ELSE st[k]]
  ELSE Append(st, [key |-> id, value |-> value])

StoreEntry(entry) ==
  [title |-> entry.title, description |-> DescriptionOf(entry),
   url |-> UrlOf(entry.collection, entry.slug)]

\* lunr(function () { this.ref('id'); this.field(...); documents.forEach(this.add) })
\* serialised by idx.toJSON(): the fields and the documents added, in order.
LunrIndex(docs) ==
  [ref |-> "id", fields |-> <<"title", "description", "content">>, documents |-> docs]

\* The for loop of generateSearchIndex over the entries: acc is the documents
\* array and the store.
RECURSIVE SearchDataOf(_, _)
SearchDataOf(acc, entries) ==
  IF entries = <<>> THEN acc
  ELSE LET entry == Head(entries)
       IN SearchDataOf([documents |-> Append(acc.documents, SearchDocument(entry)),
                        store |-> StoreSet(acc.store, entry.slug, StoreEntry(entry))],
                       Tail(entries))

\* const nodes = []; const edges = []: the script starts from empty arrays,
\* whatever graph-data.json holds.
NewNodes == <<>>

\* A script that carries on from the edges already on disk.
NewEdgesFromFile ==
  IF graphDataJson = NoFile THEN <<>> ELSE ContentOf(graphDataJson).edges

NewEdges == <<>>

\* generate-search-index.js from start to end: search-index.json is written;
\* generate-graph-data.js follows with nodes = [], edges = [], new Map().
GenerateSearchIndex ==
  /\ pc = "si"
  /\ LET out == SearchDataOf([documents |-> <<>>, store |-> <<>>], AllContent)
     IN searchIndexJson' =
          FileOf([index |-> LunrIndex(out.documents), store |-> out.store])
  /\ pc' = EnterLoop("gd_nodes", "gd_write")
  /\ idx' = 1
  /\ nodes' = NewNodes
  /\ edges' = NewEdges
  /\ slugToTitleMap' = EmptyMap
  /\ UNCHANGED <<siteVars, uiVars, corpus, strict, page, searchInput, searchResultsDiv, titleToSlugMap, backlinks, warnings,
                 backlinksJson, graphDataJson, prevArtifacts>>

\* --------------------------------------------------------------- Search.astro

\* <div id="search-results" class="... hidden">: nothing shown.
HiddenResults == [hidden |-> TRUE, items |-> <<>>]

\* this.field('title', {boost: 10}); a field without a boost has boost 1.
TitleBoost == 10

\* An index whose title field was given no boost.
FieldBoostFlat(field) == 1

FieldBoost(field) == IF field = "title" THEN TitleBoost ELSE 1

\* The words of a text: split at blanks, in lower case.
RECURSIVE SplitWords(_, _)
SplitWords(s, word) ==
  IF s = <<>> THEN (IF word = <<>> THEN <<>> ELSE <<word>>)
  ELSE IF Head(s) = " "
       THEN (IF word = <<>> THEN <<>> ELSE <<word>>) \o SplitWords(Tail(s), <<>>)
       ELSE SplitWords(Tail(s), Append(word, LowerChar(Head(s))))

\* The tokens of the text of a body: the words of its markers, without brackets.
RECURSIVE ContentTokens(_)
ContentTokens(body) ==
  IF body = <<>> THEN <<>>
  ELSE SplitWords(Head(body).text, <<>>) \o ContentTokens(Tail(body))

\* The tokens of one field of an indexed document.
FieldTokens(doc, field) ==
  CASE field = "title" -> SplitWords(doc.title, <<>>)
    [] field = "description" -> IF doc.description = "" THEN <<>> ELSE <<doc.description>>
    [] field = "content" -> ContentTokens(doc.content)

\* The number of occurrences of the term in the field.
TermFrequency(term, doc, field) ==
  Cardinality({k \in DOMAIN FieldTokens(doc, field) : FieldTokens(doc, field)[k] = term})

RECURSIVE SumOverFields(_, _, _)
SumOverFields(term, doc, fields) ==
  IF fields = <<>> THEN 0
  ELSE TermFrequency(term, doc, Head(fields)) * FieldBoost(Head(fields))
       + SumOverFields(term, doc, Tail(fields))

\* The score of a document for a term: term frequency weighted by the boost of
\* the field, summed over the fields.
Score(index, term, k) == SumOverFields(term, index.documents[k], index.fields)

\* The alphabetical order of the slugs.
SlugRank(slug) == CASE slug = "a" -> 1 [] slug = "b" -> 2

\* Document i comes before document j in the results: higher score first, ties
\* by document identifier.
RankedBefore(index, term, i, j) ==
  LET si == Score(index, term, i)
      sj == Score(index, term, j)
      ri == SlugRank(index.documents[i].id)
      rj == SlugRank(index.documents[j].id)
  IN \/ si > sj
     \/ si = sj /\ ri < rj
     \/ si = sj /\ ri = rj /\ i < j

RECURSIVE SortResults(_, _, _)
SortResults(index, term, hits) ==
  IF hits = {} THEN <<>>
  ELSE LET first == CHOOSE i \in hits :
                      \A j \in hits \ {i} : RankedBefore(index, term, i, j)
       IN <<[ref |-> index.documents[first].id, score |-> Score(index, term, first)]>>
          \o SortResults(index, term, hits \ {first})

\* searchIndex.search(query) for a query of one term.
LunrSearch(index, query) ==
  LET term == ToLowerCase(query)
  IN SortResults(index, term,
                 {k \in DOMAIN index.documents : Score(index, term, k) > 0})

\* String.prototype.trim.
RECURSIVE TrimStart(_)
TrimStart(s) == IF s # <<>> /\ Head(s) = " " THEN TrimStart(Tail(s)) ELSE s
RECURSIVE TrimEnd(_)
TrimEnd(s) ==
  IF s # <<>> /\ s[Len(s)] = " " THEN TrimEnd(SubSeq(s, 1, Len(s) - 1)) ELSE s
Trim(s) == TrimEnd(TrimStart(s))

\* searchStore[result.ref]: the entry of the store, when it has one.
StoreHas(st, id) == \E k \in DOMAIN st : st[k].key = id
StoreGet(st, id) == st[CHOOSE k \in DOMAIN st : st[k].key = id].value

\* displayResults(results): one item per result that the store knows.
DisplayResults(results, st) ==
  LET known == SelectSeq(results, LAMBDA r : StoreHas(st, r.ref))
  IN [hidden |-> FALSE,
      items |-> [k \in DOMAIN known |->
                   [ref |-> known[k].ref, item |-> StoreGet(st, known[k].ref)]]]

\* The values typed into the search input.
InputValues == {foo, Bar, <<" ", "f", "o", "o">>, <<"f">>}

\* The debounced input handler has fired on the built site: trim, search when
\* the query has more than one character and the index is loaded, display.
SearchInput ==
  /\ pc = "idle"
  /\ searchIndexJson # NoFile
  /\ \E value \in InputValues :
       LET query == Trim(value)
           data == ContentOf(searchIndexJson)
       IN /\ searchInput' = value
          /\ searchResultsDiv' =
               IF Len(query) > 1
               THEN DisplayResults(LunrSearch(data.index, query), data.store)
               ELSE HiddenResults
          /\ searchIndex' = <<data>>
          /\ debounceTimeout' = FALSE
  /\ UNCHANGED <<siteVars, corpus, strict, page, pc, idx, titleToSlugMap, backlinks, warnings,
                 nodes, edges, slugToTitleMap, backlinksJson, searchIndexJson,
                 graphDataJson, prevArtifacts>>

\* localStorage.getItem of a key that was never set; a variable let without a
\* value holds <<>> and <<v>> once it holds v.
Null == "null"

\* The walk of unist-util-visit has come to its end.
Done == <<>>

NoTagsIndex == [rendered |-> FALSE, sortedTags |-> <<>>]
NoTagPage == [tag |-> <<>>, filteredContent |-> <<>>]

\* searchInput.addEventListener('input', ...): the pending timer is cleared
\* and a new one is set.
InputEvent ==
  /\ pc = "idle"
  /\ searchIndexJson # NoFile
  /\ \E value \in InputValues : searchInput' = value
  /\ debounceTimeout' = TRUE
  /\ UNCHANGED <<siteVars, buildVars, searchResultsDiv, searchIndex>>

\* if (query.length > 1 && searchIndex) displayResults(searchIndex.search(
\* query)) else hide.
DebounceResult(query) ==
  IF Len(query) > 1 /\ searchIndex # <<>>
  THEN DisplayResults(LunrSearch(ContentOf(searchIndex).index, query),
                      ContentOf(searchIndex).store)
  ELSE HiddenResults

\* The debounce timer expires: the callback reads the value the input holds
\* now.
DebounceFires ==
  /\ debounceTimeout
  /\ debounceTimeout' = FALSE
  /\ searchResultsDiv' = DebounceResult(Trim(searchInput))
  /\ UNCHANGED <<siteVars, buildVars, searchInput, searchIndex>>

\* window.searchDataPromise.then(data => ...): the fetch of the index has
\* completed.
LoadCompletes ==
  /\ pc = "idle"
  /\ searchIndexJson # NoFile
  /\ searchIndex = <<>>
  /\ searchIndex' = <<ContentOf(searchIndexJson)>>
  /\ UNCHANGED <<siteVars, buildVars, searchInput, searchResultsDiv, debounceTimeout>>

\* ---------------------------------------------- NoteLayout, Backlinks.astro

\* No page has been rendered.
NoPage == [collection |-> "", slug |-> "", currentSlug |-> "", incomingLinks |-> <<>>,
           links |-> <<>>]

\* const currentSlug = Astro.url.pathname.substring(1): the pathname of the
\* page of an entry is /<collection>/<slug>, and substring(1) leaves out its
\* first character.
CurrentSlug(collection, slug) == collection \o "/" \o slug

\* const incomingLinks = backlinksData[currentSlug] || []
IncomingLinks(backlinksData, currentSlug) ==
  IF \E k \in DOMAIN backlinksData : backlinksData[k].key = currentSlug
  THEN backlinksData[CHOOSE k \in DOMAIN backlinksData :
                       backlinksData[k].key = currentSlug].sources
  ELSE <<>>

\* The slugs of entries that lie in a folder notes of their collection, as
\* src/content/concepts/notes/a.md.
NotesPrefixed == {"notes/" \o slug : slug \in Slugs}

\* slug.startsWith('notes/'), over the slugs of the model.
StartsWithNotes(slug) == slug \in NotesPrefixed

\* new Map(allContent.map(entry => [entry.slug, entry.data.title])).get(slug)
\* || slug: of two entries with one slug the later sets the title; a slug
\* shown for want of a title is a text of one piece.
DisplayTitle(slug) ==
  LET same == {i \in DOMAIN AllContent : AllContent[i].slug = slug}
      last == CHOOSE i \in same : \A j \in same : j <= i
  IN IF same = {} \/ AllContent[last].title = <<>>
     THEN <<slug>>
     ELSE AllContent[last].title

\* The <a> of one incoming link.
BacklinkItem(slug) ==
  LET collectionType == IF StartsWithNotes(slug) THEN "notes" ELSE "concepts"
  IN [href |-> "/" \o collectionType \o "/" \o slug, displayTitle |-> DisplayTitle(slug)]

\* The page of one entry is rendered from the built backlinks.json: the layout
\* computes currentSlug and Backlinks.astro looks the incoming links up.
RenderPage ==
  /\ pc = "idle"
  /\ backlinksJson # NoFile /\ graphDataJson # NoFile
  /\ \E i \in DOMAIN AllContent :
       LET entry == AllContent[i]
           currentSlug == CurrentSlug(entry.collection, entry.slug)
           incomingLinks == IncomingLinks(ContentOf(backlinksJson), currentSlug)
       IN page' = [collection |-> entry.collection, slug |-> entry.slug,
                   currentSlug |-> currentSlug,
                   incomingLinks |-> incomingLinks,
                   links |-> [k \in DOMAIN incomingLinks |->
                                BacklinkItem(incomingLinks[k])]]
  /\ UNCHANGED <<siteVars, uiVars, corpus, strict, searchInput, searchResultsDiv, pc, idx,
                 titleToSlugMap, backlinks, warnings, nodes, edges, slugToTitleMap,
                 backlinksJson, searchIndexJson, graphDataJson, prevArtifacts>>

\* ------------------------------------------------------ generateGraphData

\* nodes.push({id, label, group, url})
GraphNode(entry) ==
  [id |-> entry.slug, label |-> entry.title, group |-> entry.collection,
   url |-> UrlOf(entry.collection, entry.slug)]

\* edges.push({from, to, arrows: 'to'})
GraphEdge(sourceId, targetId) == [from |-> sourceId, to |-> targetId, arrows |-> "to"]

\* The same loop leaving the entry at its first unresolved match.
RECURSIVE EdgesOfMatchesUntilMiss(_, _, _, _)
EdgesOfMatchesUntilMiss(acc, matches, sourceId, m) ==
  IF matches = <<>> THEN acc
  ELSE LET targetId == MapGet(m, ToLowerCase(Head(matches)))
       IN IF Truthy(targetId)
          THEN EdgesOfMatchesUntilMiss(Append(acc, [from |-> sourceId, to |-> targetId,
                                                   arrows |-> "to"]),
                                       Tail(matches), sourceId, m)
          ELSE acc

\* The same loop leaving out the links of a document to itself.
RECURSIVE EdgesOfMatchesNoSelf(_, _, _, _)
EdgesOfMatchesNoSelf(acc, matches, sourceId, m) ==
  IF matches = <<>> THEN acc
  ELSE LET targetId == MapGet(m, ToLowerCase(Head(matches)))
           next == IF Truthy(targetId) /\ targetId # sourceId
                   THEN Append(acc, [from |-> sourceId, to |-> targetId, arrows |-> "to"])
                   ELSE acc
       IN EdgesOfMatchesNoSelf(next, Tail(matches), sourceId, m)

\* The while loop over the matches of one entry in the second pass.
RECURSIVE EdgesOfMatches(_, _, _, _)
EdgesOfMatches(acc, matches, sourceId, m) ==
  IF matches = <<>> THEN acc
  ELSE LET targetId == MapGet(m, ToLowerCase(Head(matches)))
           next == IF Truthy(targetId) THEN Append(acc, GraphEdge(sourceId, targetId))
                   ELSE acc
       IN EdgesOfMatches(next, Tail(matches), sourceId, m)

\* First pass, one entry: the node and slugToTitleMap.set(title.toLowerCase(), id).
GraphAddNode ==
  /\ pc = "gd_nodes"
  /\ LET entry == AllContent[idx]
     IN /\ nodes' = Append(nodes, GraphNode(entry))
        /\ slugToTitleMap' = SetTitle(slugToTitleMap, entry)
  /\ IF ForEachDone(idx)
     THEN pc' = "gd_edges" /\ idx' = 1
     ELSE pc' = pc /\ idx' = idx + 1
  /\ UNCHANGED <<siteVars, uiVars, corpus, strict, page, searchInput, searchResultsDiv, titleToSlugMap, backlinks, warnings,
                 edges, backlinksJson, searchIndexJson,
                 graphDataJson, prevArtifacts>>

\* Second pass, one entry: render, then the regex loop.
GraphAddEdges ==
  /\ pc = "gd_edges"
  /\ LET entry == AllContent[idx]
     IN edges' = EdgesOfMatches(edges, RegexMatches(entry.body), entry.slug,
                                slugToTitleMap)
  /\ IF ForEachDone(idx)
     THEN pc' = "gd_write" /\ idx' = 1
     ELSE pc' = pc /\ idx' = idx + 1
  /\ UNCHANGED <<siteVars, uiVars, corpus, strict, page, searchInput, searchResultsDiv, titleToSlugMap, backlinks, warnings,
                 nodes, slugToTitleMap, backlinksJson,
                 searchIndexJson, graphDataJson, prevArtifacts>>

\* graph-data.json is written and the build script goes on to astro build.
GraphWrite ==
  /\ pc = "gd_write"
  /\ graphDataJson' = FileOf([nodes |-> nodes, edges |-> edges])
  /\ pc' = "idle"
  /\ UNCHANGED <<siteVars, uiVars, corpus, strict, page, searchInput, searchResultsDiv, idx, titleToSlugMap, backlinks, warnings,
                 nodes, edges, slugToTitleMap, backlinksJson,
                 searchIndexJson, prevArtifacts>>

\* ------------------------------------------------------------ ThemeToggle

\* What an earlier visit may have left under the key theme.
StoredThemes == {Null, "dark", "light"}

\* setTheme changing the class only, leaving localStorage alone.
SetThemeClassOnly(theme) ==
  [dark |-> theme = "dark", stored |-> localStorageTheme]

\* function setTheme(theme): the class of <html> and the stored value after
\* the call.
SetTheme(theme) ==
  IF theme = "dark"
  THEN [dark |-> TRUE, stored |-> "dark"]
  ELSE [dark |-> FALSE, stored |-> "light"]

ThemeOfClass(dark) == IF dark THEN "dark" ELSE "light"

\* A page of the site is loaded: a new document, whose <html> has no class
\* dark, runs the script of ThemeToggle to its end.
PageLoad ==
  /\ Len(themeEvents) < MaxEvents
  /\ LET storedTheme == localStorageTheme
         applied == IF storedTheme # Null
                    THEN SetTheme(storedTheme)
                    ELSE IF prefersDark THEN SetTheme("dark") ELSE SetTheme("light")
     IN /\ classListDark' = applied.dark
        /\ localStorageTheme' = applied.stored
        /\ themeEvents' = Append(themeEvents,
                                 [type |-> "load", theme |-> ThemeOfClass(applied.dark)])
  /\ UNCHANGED <<buildVars, searchInput, searchResultsDiv, uiVars, prefersDark,
                 remarkVars, tagVars>>

\* themeToggle.addEventListener('click', ...): the button exists once a page
\* is loaded.
ToggleClick ==
  /\ themeEvents # <<>>
  /\ Len(themeEvents) < MaxEvents
  /\ LET chosen == IF classListDark THEN "light" ELSE "dark"
         applied == SetTheme(chosen)
     IN /\ classListDark' = applied.dark
        /\ localStorageTheme' = applied.stored
        /\ themeEvents' = Append(themeEvents, [type |-> "click", theme |-> chosen])
  /\ UNCHANGED <<buildVars, searchInput, searchResultsDiv, uiVars, prefersDark,
                 remarkVars, tagVars>>

\* The visitor changes the colour scheme of the system; the script listens to
\* no change event of the media query.
PreferenceChanges ==
  /\ prefersDark' = ~prefersDark
  /\ UNCHANGED <<buildVars, searchInput, searchResultsDiv, uiVars, classListDark,
                 localStorageTheme, themeEvents, remarkVars, tagVars>>

\* ----------------------------------------------------- remarkInternalLinks

\* const slugMap = new Map([...]): lower-cased link text -> slug.
SlugMap == (foo :> "notes/foo")

\* u('text', value) and u('link', {url}, children)
TextNode(value) == [type |-> "text", value |-> value, url |-> "", children |-> <<>>]
LinkNode(url, children) == [type |-> "link", value |-> <<>>, url |-> url, children |-> children]

\* The node of the markdown [](/about): a link without children.
EmptyLink == LinkNode("/about", <<>>)

Open == <<"[", "[">>
Close == <<"]", "]">>
FullMatch(linkText) == Open \o linkText \o Close

\* The pieces the text values of the model are made of.
Chunks == {Open, Close, Foo, <<"x">>, FullMatch(Foo), FullMatch(<<"x">>)}

RECURSIVE ChunkTexts(_)
ChunkTexts(n) ==
  IF n = 0 THEN {<<>>}
  ELSE ChunkTexts(n - 1) \cup {t \o c : t \in ChunkTexts(n - 1), c \in Chunks}

TextValues == ChunkTexts(MaxChunks) \ {<<>>}

\* The two characters a, b stand at position i of value.
PairAt(value, i, pair) ==
  i + 1 <= Len(value) /\ value[i] = pair[1] /\ value[i + 1] = pair[2]

\* regex.exec loop of /\[\[(.*?)\]\]/g over node.value: the matches from
\* position from on, positions counted from 1.  A match starts at the
\* leftmost [[ that has a ]] after it and, .*? being lazy, ends with the
\* first such ]]; end is the position after the match (regex.lastIndex).
RECURSIVE ExecAll(_, _)
ExecAll(value, from) ==
  LET starts == {i \in from..Len(value) :
                   /\ PairAt(value, i, Open)
                   /\ \E j \in (i + 2)..Len(value) : PairAt(value, j, Close)}
  IN IF starts = {} THEN <<>>
     ELSE LET start == CHOOSE i \in starts : \A k \in starts : i <= k
              close == CHOOSE j \in (start + 2)..Len(value) :
                         /\ PairAt(value, j, Close)
                         /\ \A k \in (start + 2)..(j - 1) : ~PairAt(value, k, Close)
          IN <<[start |-> start, end |-> close + 2,
                linkText |-> SubSeq(value, start + 2, close - 1)]>>
             \o ExecAll(value, close + 2)

\* The node of a match as the draft of the plugin in the plan makes it:
\* a link whatever the text.
ReplacementAlwaysLink(linkText) ==
  LinkNode("/" \o MapGet(SlugMap, ToLowerCase(linkText)), <<TextNode(linkText)>>)

\* if (resolvedSlug) newNodes.push(u('link', ...)) else newNodes.push(u('text',
\* fullMatch)).  The console.warn of the else branch changes nothing of the
\* tree.
Replacement(linkText) ==
  LET resolvedSlug == MapGet(SlugMap, ToLowerCase(linkText))
  IN IF Truthy(resolvedSlug)
     THEN LinkNode("/" \o resolvedSlug, <<TextNode(linkText)>>)
     ELSE TextNode(FullMatch(linkText))

\* The text before a match: if (start > lastIndex) newNodes.push(u('text', ...))
TextBefore(value, lastIndex, start) ==
  IF start > lastIndex
  THEN <<TextNode(SubSeq(value, lastIndex, start - 1))>>
  ELSE <<>>

\* The text after the last match left out.
RemainingTextDropped(value, lastIndex) == <<>>

\* if (lastIndex < node.value.length) newNodes.push(u('text', substring(lastIndex)))
RemainingText(value, lastIndex) ==
  IF lastIndex <= Len(value)
  THEN <<TextNode(SubSeq(value, lastIndex, Len(value)))>>
  ELSE <<>>

\* newNodes after the while loop has gone through the matches from k on.
RECURSIVE NodesFrom(_, _, _, _)
NodesFrom(value, matches, k, lastIndex) ==
  IF k > Len(matches)
  THEN RemainingText(value, lastIndex)
  ELSE TextBefore(value, lastIndex, matches[k].start)
       \o <<Replacement(matches[k].linkText)>>
       \o NodesFrom(value, matches, k + 1, matches[k].end)

NewNodesOf(value) == NodesFrom(value, ExecAll(value, 1), 1, 1)

\* children.splice(index, 1, ...newNodes)
Splice(children, index, newNodes) ==
  SubSeq(children, 1, index - 1) \o newNodes \o SubSeq(children, index + 1, Len(children))

\* The node the walk stands at: <<i>> is child i of the parent, <<i, k>> child
\* k of the link that is child i.
AtNode ==
  /\ cursor # Done
  /\ cursor[1] \in DOMAIN tree
  /\ Len(cursor) = 2 => cursor[2] \in DOMAIN tree[cursor[1]].children

NodeAtCursor ==
  IF Len(cursor) = 1 THEN tree[cursor[1]] ELSE tree[cursor[1]].children[cursor[2]]

NextSibling == [cursor EXCEPT ![Len(cursor)] = @ + 1]

\* The visitor is called on a text node.  With new nodes it splices them in
\* and returns [visit.SKIP, index]: the walk goes on with the child that is at
\* index now.  Without, it returns nothing and the walk goes to the next
\* sibling.
VisitText ==
  /\ AtNode
  /\ NodeAtCursor.type = "text"
  /\ visits < MaxVisits
  /\ visits' = visits + 1
  /\ LET index == cursor[Len(cursor)]
         newNodes == NewNodesOf(NodeAtCursor.value)
     IN IF Len(newNodes) > 0
        THEN /\ tree' = IF Len(cursor) = 1
                        THEN Splice(tree, index, newNodes)
                        ELSE [tree EXCEPT ![cursor[1]].children = Splice(@, index, newNodes)]
             /\ cursor' = [cursor EXCEPT ![Len(cursor)] = index]
        ELSE /\ tree' = tree
             /\ cursor' = NextSibling
  /\ UNCHANGED <<buildVars, searchInput, searchResultsDiv, uiVars, themeVars,
                 inputTree, tagVars>>

\* A link is no text node: the visitor is not called and the walk goes into
\* its children.
EnterLink ==
  /\ AtNode
  /\ Len(cursor) = 1
  /\ NodeAtCursor.type = "link"
  /\ cursor' = <<cursor[1], 1>>
  /\ UNCHANGED <<buildVars, searchInput, searchResultsDiv, uiVars, themeVars,
                 tree, inputTree, visits, tagVars>>

\* The children of a link are through: on to the sibling after the link.
LeaveLink ==
  /\ cursor # Done
  /\ Len(cursor) = 2
  /\ cursor[2] > Len(tree[cursor[1]].children)
  /\ cursor' = <<cursor[1] + 1>>
  /\ UNCHANGED <<buildVars, searchInput, searchResultsDiv, uiVars, themeVars,
                 tree, inputTree, visits, tagVars>>

\* The children of the parent are through: visit returns.
WalkDone ==
  /\ cursor # Done
  /\ Len(cursor) = 1
  /\ cursor[1] > Len(tree)
  /\ cursor' = Done
  /\ UNCHANGED <<buildVars, searchInput, searchResultsDiv, uiVars, themeVars,
                 tree, inputTree, visits, tagVars>>

\* -------------------------------------------------------------- tag pages

\* localeCompare over the titles and tags of the model: bar, Bar, foo, Foo.
LocaleRank(text) ==
  CASE text = ToLowerCase(Bar) -> 1
    [] text = Bar -> 2
    [] text = foo -> 3
    [] text = Foo -> 4
    [] OTHER -> 5

\* list.sort((a, b) => a.data.title.localeCompare(b.data.title)): the sort is
\* stable.
RECURSIVE SortByTitle(_)
SortByTitle(list) ==
  IF list = <<>> THEN <<>>
  ELSE LET sorted == SortByTitle(SubSeq(list, 1, Len(list) - 1))
           x == list[Len(list)]
           later == {k \in DOMAIN sorted : LocaleRank(x.title) < LocaleRank(sorted[k].title)}
           at == IF later = {} THEN Len(sorted) + 1
                 ELSE CHOOSE k \in later : \A j \in later : k <= j
       IN SubSeq(sorted, 1, at - 1) \o <<x>> \o SubSeq(sorted, at, Len(sorted))

\* allContent.flatMap of the tags, in the order the two forEach go through
\* them.
RECURSIVE TagsInOrder(_)
TagsInOrder(entries) ==
  IF entries = <<>> THEN <<>> ELSE Head(entries).tags \o TagsInOrder(Tail(entries))

\* tagCounts.set(normalizedTag, (tagCounts.get(normalizedTag) || 0) + 1) for
\* every tag of the list.
RECURSIVE TagCounts(_)
TagCounts(tagList) ==
  IF tagList = <<>> THEN EmptyMap
  ELSE LET tagCounts == TagCounts(SubSeq(tagList, 1, Len(tagList) - 1))
           normalizedTag == ToLowerCase(tagList[Len(tagList)])
           before == IF normalizedTag \in DOMAIN tagCounts
                     THEN tagCounts[normalizedTag] ELSE 0
       IN MapSet(tagCounts, normalizedTag, before + 1)

\* Array.from(tagCounts.entries()).sort((a, b) => a[0].localeCompare(b[0]))
RECURSIVE SortedEntries(_, _)
SortedEntries(tagCounts, keys) ==
  IF keys = {} THEN <<>>
  ELSE LET t == CHOOSE x \in keys : \A y \in keys : LocaleRank(x) <= LocaleRank(y)
       IN <<[tag |-> t, count |-> tagCounts[t]]>> \o SortedEntries(tagCounts, keys \ {t})

SortedTags(tagCounts) == SortedEntries(tagCounts, DOMAIN tagCounts)

\* getStaticPaths: the lower-cased tags of the corpus.
UniqueTags == {ToLowerCase(t) : t \in Range(TagsInOrder(AllContent))}

\* allContent.filter(entry => entry.data.tags.map(toLowerCase).includes(
\* tag.toLowerCase())).sort by title
FilteredContent(tag) ==
  SortByTitle(SelectSeq(AllContent,
                        LAMBDA entry : ToLowerCase(tag) \in
                                         {ToLowerCase(t) : t \in Range(entry.tags)}))

\* src/pages/tags/index.astro is rendered.
RenderTagsIndex ==
  /\ tagsIndexPage' = [rendered |-> TRUE,
                       sortedTags |-> SortedTags(TagCounts(TagsInOrder(AllContent)))]
  /\ UNCHANGED <<buildVars, searchInput, searchResultsDiv, uiVars, themeVars,
                 remarkVars, tagPage>>

\* src/pages/tags/[tag].astro is rendered for one of the paths of
\* getStaticPaths.
RenderTagPage ==
  /\ \E tag \in UniqueTags :
       tagPage' = [tag |-> tag, filteredContent |-> FilteredContent(tag)]
  /\ UNCHANGED <<buildVars, searchInput, searchResultsDiv, uiVars, themeVars,
                 remarkVars, tagsIndexPage>>

\* ----------------------------------------------------------- specification

\* No document is open in a browser.
InitUi ==
  /\ searchInput = <<>>
  /\ searchResultsDiv = HiddenResults
  /\ searchIndex = <<>>
  /\ debounceTimeout = FALSE

InitNoTheme ==
  /\ classListDark = FALSE
  /\ localStorageTheme = Null
  /\ prefersDark = FALSE
  /\ themeEvents = <<>>

\* No markdown file is being transformed.
InitNoTree ==
  /\ tree = <<>>
  /\ inputTree = <<>>
  /\ cursor = Done
  /\ visits = 0

\* No tag page has been rendered.
InitNoTags ==
  /\ tagsIndexPage = NoTagsIndex
  /\ tagPage = NoTagPage

\* Everything but the corpus and the mode: nothing has run, no file exists.
InitBuild ==
  /\ InitUi /\ InitNoTheme /\ InitNoTree /\ InitNoTags
  /\ pc = "idle"
  /\ idx = 1
  /\ titleToSlugMap = EmptyMap
  /\ backlinks = <<>>
  /\ warnings = <<>>
  /\ nodes = <<>>
  /\ edges = <<>>
  /\ slugToTitleMap = EmptyMap
  /\ backlinksJson = NoFile
  /\ searchIndexJson = NoFile
  /\ graphDataJson = NoFile
  /\ prevArtifacts = <<NoFile, NoFile, NoFile>>
  /\ page = NoPage

\* The default (lenient) build.
Init ==
  /\ IsCorpusOf(corpus, PlainMarkers)
  /\ strict = FALSE
  /\ InitBuild

\* The build invoked in strict mode.
InitStrict ==
  /\ IsCorpusOf(corpus, PlainMarkers)
  /\ strict = TRUE
  /\ InitBuild

\* The lenient build of a corpus whose bodies hold code blocks.
InitFenced ==
  /\ IsCorpusOf(corpus, AnyMarkers)
  /\ strict = FALSE
  /\ InitBuild

\* The lenient build of a corpus whose titles and references hold blanks.
InitSpaced ==
  /\ IsCorpusOver(corpus, SpacedTitles, SpacedMarkers)
  /\ strict = FALSE
  /\ InitBuild

Next ==
  \/ StartBacklinks
  \/ BacklinksSetTitle
  \/ BacklinksResolveEntry
  \/ BacklinksWrite
  \/ GenerateSearchIndex
  \/ GraphAddNode
  \/ GraphAddEdges
  \/ GraphWrite

\* The build has not run and holds no corpus.
InitNoBuild ==
  /\ corpus = <<>>
  /\ strict = FALSE
  /\ pc = "idle"
  /\ idx = 1
  /\ titleToSlugMap = EmptyMap
  /\ backlinks = <<>>
  /\ warnings = <<>>
  /\ nodes = <<>>
  /\ edges = <<>>
  /\ slugToTitleMap = EmptyMap
  /\ backlinksJson = NoFile
  /\ searchIndexJson = NoFile
  /\ graphDataJson = NoFile
  /\ prevArtifacts = <<NoFile, NoFile, NoFile>>
  /\ page = NoPage

\* A visitor with one tab on the site: what localStorage holds from earlier
\* visits and the colour scheme of the system are free.
InitTheme ==
  /\ InitNoBuild /\ InitUi /\ InitNoTree /\ InitNoTags
  /\ classListDark = FALSE
  /\ localStorageTheme \in StoredThemes
  /\ prefersDark \in BOOLEAN
  /\ themeEvents = <<>>

NextTheme ==
  \/ PageLoad
  \/ ToggleClick
  \/ PreferenceChanges

SpecTheme == InitTheme /\ [][NextTheme]_vars

\* The transformer is called on a paragraph: nothing, a link without text, one
\* text node, or both.
InitRemark ==
  /\ InitNoBuild /\ InitUi /\ InitNoTheme /\ InitNoTags
  /\ \E links \in {<<>>, <<EmptyLink>>} :
       \E texts \in {<<>>} \cup {<<TextNode(value)>> : value \in TextValues} :
         inputTree = links \o texts
  /\ tree = inputTree
  /\ cursor = <<1>>
  /\ visits = 0

NextRemark ==
  \/ VisitText
  \/ EnterLink
  \/ LeaveLink
  \/ WalkDone

SpecRemark == InitRemark /\ [][NextRemark]_vars

\* The tag pages of a corpus whose notes carry tags.
InitTags ==
  /\ \E n \in 0..MaxDocs :
       \E ids \in IdLists(n) :
         \E titles \in [1..n -> Titles] :
           \E tagLists \in [1..n -> TagLists] :
             corpus = [k \in 1..n |->
                         WithTags(Entry(ids[k], titles[k], <<>>), tagLists[k])]
  /\ strict = FALSE
  /\ InitBuild

NextTags ==
  \/ RenderTagsIndex
  \/ RenderTagPage

SpecTags == InitTags /\ [][NextTags]_vars

\* The search box of the built site: two notes, the visitor may type before
\* the index has arrived.
InitTyping ==
  /\ \E titles \in [1..2 -> {Foo, Bar}] :
       corpus = <<Entry([slug |-> "a", collection |-> "notes"], titles[1], <<>>),
                  Entry([slug |-> "b", collection |-> "notes"], titles[2], <<>>)>>
  /\ strict = FALSE
  /\ InitBuild

NextTyping ==
  \/ Next
  \/ InputEvent
  \/ DebounceFires
  \/ LoadCompletes

SpecTyping == InitTyping /\ [][NextTyping]_vars

\* The build with generate-backlinks.js as the plan drafts it.
InitDraft ==
  /\ IsCorpusFrom(corpus, NamedSlugs, {Foo, Bar}, DraftMarkers)
  /\ strict = FALSE
  /\ InitBuild

NextDraft ==
  \/ DraftStartBacklinks
  \/ DraftBacklinksResolveEntry
  \/ BacklinksWrite
  \/ GenerateSearchIndex
  \/ GraphAddNode
  \/ GraphAddEdges
  \/ GraphWrite

\* The body that holds the reference [[Foo]] n times.
RepeatFoo(n) == [k \in 1..n |-> [text |-> Foo, fenced |-> FALSE]]

\* The built site in use: two notes, one of them with some number of
\* occurrences of one word in its body.
InitSearch ==
  /\ \E s1, s2 \in Slugs, titles \in [1..2 -> {Foo, Bar}] :
       \E n \in 0..MaxOccurrences, which \in 1..2 :
         /\ s1 # s2
         /\ corpus = <<Entry([slug |-> s1, collection |-> "notes"], titles[1],
                             RepeatFoo(IF which = 1 THEN n ELSE 0)),
                       Entry([slug |-> s2, collection |-> "notes"], titles[2],
                             RepeatFoo(IF which = 2 THEN n ELSE 0))>>
  /\ strict = FALSE
  /\ InitBuild

NextSearch ==
  \/ Next
  \/ SearchInput

\* The build on a machine where a script may fail.
NextFailing ==
  \/ Next
  \/ ScriptFails

\* The lenient build of a corpus whose entries may give their optional field.
InitOptional ==
  /\ \E n \in 0..MaxDocs :
       \E bodies \in BodyLists(n, PlainMarkers) :
         \E ids \in IdLists(n) :
           \E texts \in [1..n -> OptionalTexts] :
             corpus = [k \in 1..n |->
                         WithOptional(Entry(ids[k], Foo, bodies[k]), texts[k])]
  /\ strict = FALSE
  /\ InitBuild

\* The build followed by the rendering of the pages.
NextPages ==
  \/ Next
  \/ RenderPage

Spec == Init /\ [][Next]_vars

SpecPages == Init /\ [][NextPages]_vars

\* The lenient build of a corpus with an entry in a folder notes, followed by
\* the rendering of the pages.
InitNested ==
  /\ IsCorpusFrom(corpus, {"a", "notes/a"}, {Foo, Bar}, PlainMarkers)
  /\ strict = FALSE
  /\ InitBuild

SpecNested == InitNested /\ [][NextPages]_vars

SpecOptional == InitOptional /\ [][Next]_vars

SpecFailing == Init /\ [][NextFailing]_vars

SpecSearch == InitSearch /\ [][NextSearch]_vars

SpecDraft == InitDraft /\ [][NextDraft]_vars

SpecStrict == InitStrict /\ [][Next]_vars

SpecFenced == InitFenced /\ [][Next]_vars

SpecSpaced == InitSpaced /\ [][Next]_vars

\* ------------------------------------------------------------- properties

\* A build has run to its end: the three files are those of one whole build.
BuildDone == pc = "idle" /\ graphDataJson # NoFile

\* The artifacts a finished build has written.
Graph == ContentOf(graphDataJson)
BacklinkIndex == ContentOf(backlinksJson)
SearchData == ContentOf(searchIndexJson)

\* The edge array holds an edge from a to b.
EdgeIn(edgeList, a, b) ==
  \E k \in DOMAIN edgeList : edgeList[k].from = a /\ edgeList[k].to = b

\* a is in the backlink list of b.
BacklinkIn(bl, a, b) ==
  \E k \in DOMAIN bl : bl[k].key = b /\ a \in Range(bl[k].sources)

NodeIds(graph) == {graph.nodes[k].id : k \in DOMAIN graph.nodes}

\* The places <<i, k>> of the markers of the corpus: marker k of entry i.
MarkerPlaces ==
  {p \in (DOMAIN AllContent) \X (1..MaxRefs) : p[2] \in DOMAIN AllContent[p[1]].body}

MarkerAt(p) == AllContent[p[1]].body[p[2]]
SourceOf(p) == AllContent[p[1]].slug

\* The entries whose title is the link text up to letter case.
TitleMatches(text) ==
  {i \in DOMAIN AllContent : ToLowerCase(AllContent[i].title) = ToLowerCase(text)}

Resolvable(p) == TitleMatches(MarkerAt(p).text) # {}

\* C1: after a build, the graph artifact has an edge from a to b exactly when
\* a is in the backlink list of b in the backlink artifact.
C1_BacklinkSymmetry ==
  BuildDone =>
    \A a, b \in Slugs :
      EdgeIn(Graph.edges, a, b) <=> BacklinkIn(BacklinkIndex, a, b)

\* A finished build with a link between two different documents and a pair of
\* documents that is not linked.
C1_Witness ==
  /\ BuildDone
  /\ \E a, b \in Slugs :
       /\ a # b
       /\ EdgeIn(Graph.edges, a, b) /\ BacklinkIn(BacklinkIndex, a, b)
       /\ ~EdgeIn(Graph.edges, b, a) /\ ~BacklinkIn(BacklinkIndex, b, a)

\* C2: every edge of the graph artifact starts and ends at a node of the same
\* artifact, also with unresolved references and duplicate titles in the corpus.
C2_NoDanglingEdges ==
  graphDataJson # NoFile =>
    \A k \in DOMAIN Graph.edges :
      /\ Graph.edges[k].from \in NodeIds(Graph)
      /\ Graph.edges[k].to \in NodeIds(Graph)

\* A graph with an edge, built from a corpus with two titles that collide and
\* a reference that resolves to nothing.
C2_Witness ==
  /\ BuildDone
  /\ Graph.edges # <<>>
  /\ \E i, j \in DOMAIN AllContent :
       i # j /\ ToLowerCase(AllContent[i].title) = ToLowerCase(AllContent[j].title)
  /\ \E p \in MarkerPlaces : ~Resolvable(p)

\* The build is resolving the links of an entry that holds a reference which
\* matches no title.
AtUnresolvedLink ==
  /\ pc \in {"bl_links", "gd_edges"}
  /\ \E k \in DOMAIN AllContent[idx].body :
       TitleMatches(AllContent[idx].body[k].text) = {}

\* C3: a reference that matches no title does not stop the build; it adds no
\* edge and no backlink, its document is still a node, and the other references
\* of the document that match a title still give their edge and backlink.
C3_UnresolvedLinkNonFatal ==
  /\ AtUnresolvedLink => ENABLED Next
  /\ BuildDone =>
       LET places == MarkerPlaces
           hits == {q \in places : Resolvable(q)}
       IN \A p \in places \ hits :
            /\ SourceOf(p) \in NodeIds(Graph)
            /\ \A q \in hits :
                 q[1] = p[1] =>
                   \E i \in TitleMatches(MarkerAt(q).text) :
                     /\ EdgeIn(Graph.edges, SourceOf(p), AllContent[i].slug)
                     /\ BacklinkIn(BacklinkIndex, SourceOf(p), AllContent[i].slug)
            /\ Cardinality({k \in DOMAIN Graph.edges :
                              Graph.edges[k].from = SourceOf(p)})
                 = Cardinality({q \in hits : SourceOf(q) = SourceOf(p)})
            /\ \A b \in Slugs \cup {Undefined} :
                 BacklinkIn(BacklinkIndex, SourceOf(p), b) =>
                   \E q \in hits :
                     /\ SourceOf(q) = SourceOf(p)
                     /\ \E i \in TitleMatches(MarkerAt(q).text) : AllContent[i].slug = b
            /\ \A k \in DOMAIN BacklinkIndex : BacklinkIndex[k].key # Undefined

\* A finished build of a document that holds an unresolved reference followed
\* by a resolved one.
C3_Witness ==
  /\ BuildDone
  /\ \E p, q \in MarkerPlaces :
       /\ p[1] = q[1] /\ p[2] < q[2]
       /\ ~Resolvable(p) /\ Resolvable(q)
       /\ Graph.edges # <<>>

\* The console lines that name a source and a raw link text.
WarningsFor(slug, text) ==
  {k \in DOMAIN warnings :
     /\ warnings[k].kind = "unresolved"
     /\ warnings[k].slug = slug
     /\ warnings[k].linkedTitle = text}

\* C4: the build records one warning for each reference that fails to resolve,
\* naming the source document and the raw target text, and no other warning
\* about unresolved links.
C4_OneWarningPerUnresolvedLink ==
  BuildDone =>
    /\ \A s \in Slugs, t \in LinkTexts :
         Cardinality(WarningsFor(s, t))
           = Cardinality({p \in MarkerPlaces :
                            /\ SourceOf(p) = s /\ MarkerAt(p).text = t
                            /\ ~Resolvable(p)})
    /\ Len(warnings) = Cardinality({p \in MarkerPlaces : ~Resolvable(p)})

\* A finished build of a document that holds the same unresolved reference twice.
C4_Witness ==
  /\ BuildDone
  /\ \E p, q \in MarkerPlaces :
       /\ p[1] = q[1] /\ p[2] < q[2]
       /\ MarkerAt(p).text = MarkerAt(q).text
       /\ ~Resolvable(p)
  /\ Len(warnings) = 2

\* The entries whose title normalizes to the key.
EntriesOfKey(key) == {i \in DOMAIN AllContent : ToLowerCase(AllContent[i].title) = key}

\* Some key is the normalized title of two entries.
HasTitleCollision ==
  \E i, j \in DOMAIN AllContent :
    i # j /\ ToLowerCase(AllContent[i].title) = ToLowerCase(AllContent[j].title)

\* generateBacklinks has left its title loop and holds its finished map.
BacklinksMapBuilt == pc \in {"bl_links", "bl_write"}

\* generateGraphData has left its first pass and holds its finished map.
GraphMapBuilt == pc \in {"gd_edges", "gd_write"}

\* C5: a key shared by several titles maps to the document with the smallest
\* identifier, whatever the order of the documents in the corpus list.
C5_SmallestIdentifierWins ==
  /\ BacklinksMapBuilt =>
       \A key \in DOMAIN titleToSlugMap :
         \A i \in EntriesOfKey(key) :
           SlugRank(titleToSlugMap[key]) <= SlugRank(AllContent[i].slug)
  /\ GraphMapBuilt =>
       \A key \in DOMAIN slugToTitleMap :
         \A i \in EntriesOfKey(key) :
           SlugRank(slugToTitleMap[key]) <= SlugRank(AllContent[i].slug)

\* C6: in strict mode a corpus with two titles that normalize to the same key
\* stops the build before it has a title map: no pass over the links starts
\* and no artifact is written.
C6_StrictModeRejectsDuplicateTitles ==
  (strict /\ HasTitleCollision) =>
    /\ pc \in {"idle", "bl_titles"}
    /\ backlinksJson = NoFile /\ searchIndexJson = NoFile /\ graphDataJson = NoFile

\* C7: in lenient mode every document that shares its normalized title with the
\* document the map chose has a warning of its own in the build report.
C7_CollisionLosersWarned ==
  (~strict /\ BuildDone) =>
    \A i \in DOMAIN AllContent :
      (\E j \in DOMAIN AllContent :
         /\ j # i
         /\ ToLowerCase(AllContent[j].title) = ToLowerCase(AllContent[i].title)
         /\ AllContent[i].slug # titleToSlugMap[ToLowerCase(AllContent[i].title)])
      => \E k \in DOMAIN warnings :
           warnings[k].kind # "unresolved" /\ warnings[k].slug = AllContent[i].slug

\* C8: a build that starts from the artifacts of an earlier build of the same
\* corpus ends with the same three artifacts, entry for entry.
C8_Idempotence ==
  (pc = "idle" /\ prevArtifacts # <<NoFile, NoFile, NoFile>>) =>
    <<backlinksJson, searchIndexJson, graphDataJson>> = prevArtifacts

\* A second build has ended, over a corpus with an edge, a backlink and an
\* unresolved reference.
C8_Witness ==
  /\ pc = "idle"
  /\ prevArtifacts # <<NoFile, NoFile, NoFile>>
  /\ Graph.edges # <<>>
  /\ BacklinkIndex # <<>>
  /\ Len(Graph.nodes) = 2

\* Every title of the corpus is a key of the map.
AllTitlesInserted(m) ==
  \A i \in DOMAIN AllContent : ToLowerCase(AllContent[i].title) \in DOMAIN m

\* C9: while a script resolves links, its title map holds the titles of all
\* documents, and no step taken from then on until the script ends writes it.
C9_TwoPhaseBarrier ==
  [][/\ BacklinksMapBuilt =>
          AllTitlesInserted(titleToSlugMap) /\ titleToSlugMap' = titleToSlugMap
     /\ GraphMapBuilt =>
          AllTitlesInserted(slugToTitleMap) /\ slugToTitleMap' = slugToTitleMap]_vars

\* The second entry of a corpus of two different titles has its links resolved.
C9_Witness ==
  /\ pc = "bl_links"
  /\ idx = 2
  /\ Cardinality(DOMAIN titleToSlugMap) = 2
  /\ AllContent[2].body # <<>>

\* The markers of the corpus that lie outside code blocks.
OpenMarkerPlaces == {p \in MarkerPlaces : ~MarkerAt(p).fenced}

\* C10: a marker inside a fenced code block gives no edge, no backlink and no
\* warning; the edges, backlinks and warnings of a build are those of the
\* markers outside code blocks.
C10_FencedMarkersIgnored ==
  BuildDone =>
    /\ Len(Graph.edges) = Cardinality({p \in OpenMarkerPlaces : Resolvable(p)})
    /\ Len(warnings) = Cardinality({p \in OpenMarkerPlaces : ~Resolvable(p)})
    /\ \A a, b \in Slugs :
         BacklinkIn(BacklinkIndex, a, b) =>
           \E p \in OpenMarkerPlaces :
             /\ SourceOf(p) = a
             /\ \E i \in TitleMatches(MarkerAt(p).text) : AllContent[i].slug = b

\* The normalization of titles and reference texts: case folded, whitespace
\* collapsed.
Normalize(s) == CollapseWhitespace(ToLowerCase(s))

\* C11: a reference whose text equals a document's title once both are case
\* folded and whitespace collapsed resolves: it gives an edge and a backlink
\* from its document to a document of that normalized title.
C11_NormalizedReferenceResolves ==
  BuildDone =>
    \A p \in MarkerPlaces :
      LET same == {i \in DOMAIN AllContent :
                     Normalize(AllContent[i].title) = Normalize(MarkerAt(p).text)}
      IN same # {} =>
           \E i \in same :
             /\ EdgeIn(Graph.edges, SourceOf(p), AllContent[i].slug)
             /\ BacklinkIn(BacklinkIndex, SourceOf(p), AllContent[i].slug)

\* The documents the title map of the graph resolves a reference to.
ResolvedTarget(p) == MapGet(slugToTitleMap, ToLowerCase(MarkerAt(p).text))

\* C12: after a build the graph has the edge (s, t) exactly when the body of s
\* holds a reference whose normalized text is a key of the title map that maps
\* to t, and every entry of the backlink index, under whatever key, comes from
\* such a reference: a reference that resolves to nothing gives no edge and no
\* backlink.
C12_EdgesExactlyFromResolvedReferences ==
  BuildDone =>
    LET places == MarkerPlaces
        ids == {AllContent[i].slug : i \in DOMAIN AllContent}
    IN /\ \A s, t \in ids :
            EdgeIn(Graph.edges, s, t) <=>
              \E p \in places : SourceOf(p) = s /\ ResolvedTarget(p) = t
       /\ \A k \in DOMAIN Graph.edges :
            Graph.edges[k].from \in ids /\ Graph.edges[k].to \in ids
       /\ \A k \in DOMAIN BacklinkIndex :
            \A s \in Range(BacklinkIndex[k].sources) :
              \E p \in places :
                SourceOf(p) = s /\ ResolvedTarget(p) = BacklinkIndex[k].key

\* The term the displayed results were searched for.
ShownTerm == ToLowerCase(Trim(searchInput))

\* The places of the document in the displayed results.
ShownAt(id) ==
  {k \in DOMAIN searchResultsDiv.items : searchResultsDiv.items[k].ref = id}

\* The term occurs in the title of the entry and in no other field of it.
OnlyInTitle(term, e) ==
  /\ TermFrequency(term, SearchDocument(e), "title") > 0
  /\ TermFrequency(term, SearchDocument(e), "description") = 0
  /\ TermFrequency(term, SearchDocument(e), "content") = 0

\* The term occurs in the body of the entry and in no other field of it.
OnlyInBody(term, e) ==
  /\ TermFrequency(term, SearchDocument(e), "content") > 0
  /\ TermFrequency(term, SearchDocument(e), "title") = 0
  /\ TermFrequency(term, SearchDocument(e), "description") = 0

\* Both documents are shown, the first above the second.
ShownAbove(d, e) ==
  /\ ShownAt(d.slug) # {} /\ ShownAt(e.slug) # {}
  /\ \A i \in ShownAt(d.slug), j \in ShownAt(e.slug) : i < j

\* C13 as stated: whatever the numbers of occurrences, a document with the
\* term only in its title is shown above a document with the term only in its
\* body.
C13_TitleAboveBodyAlways ==
  (~searchResultsDiv.hidden /\ Len(corpus) = 2) =>
    \A i, j \in DOMAIN corpus :
      (/\ corpus[i].slug # corpus[j].slug
       /\ OnlyInTitle(ShownTerm, corpus[i])
       /\ OnlyInBody(ShownTerm, corpus[j]))
      => ShownAbove(corpus[i], corpus[j])

\* C13 as amended: a document with the term only in its title is shown above a
\* document with the term only in its body when the occurrences in the body
\* number less than ten times the occurrences in the title.
C13_TitleAboveBodyWithinBoost ==
  (~searchResultsDiv.hidden /\ Len(corpus) = 2) =>
    \A i, j \in DOMAIN corpus :
      (/\ corpus[i].slug # corpus[j].slug
       /\ OnlyInTitle(ShownTerm, corpus[i])
       /\ OnlyInBody(ShownTerm, corpus[j])
       /\ TermFrequency(ShownTerm, SearchDocument(corpus[j]), "content")
            < 10 * TermFrequency(ShownTerm, SearchDocument(corpus[i]), "title"))
      => ShownAbove(corpus[i], corpus[j])

\* The results of a search are shown for a document with the term in its title
\* and a document with the term nine times in its body and not in its title.
C13_Witness ==
  /\ ~searchResultsDiv.hidden
  /\ \E i, j \in DOMAIN corpus :
       /\ corpus[i].slug # corpus[j].slug
       /\ OnlyInTitle(ShownTerm, corpus[i])
       /\ OnlyInBody(ShownTerm, corpus[j])
       /\ TermFrequency(ShownTerm, SearchDocument(corpus[j]), "content") = 9
       /\ ShownAbove(corpus[i], corpus[j])

\* The edge comes no later than the other in the order of (from, to).
EdgeNotAfter(e, f) ==
  \/ SlugRank(e.from) < SlugRank(f.from)
  \/ e.from = f.from /\ SlugRank(e.to) <= SlugRank(f.to)

\* C14: the node array of the graph artifact is sorted by identifier and its
\* edge array by the identifiers of its ends, whatever the order in which the
\* documents were loaded.
C14_SortedArtifacts ==
  BuildDone =>
    /\ \A i, j \in DOMAIN Graph.nodes :
         i < j => SlugRank(Graph.nodes[i].id) <= SlugRank(Graph.nodes[j].id)
    /\ \A i, j \in DOMAIN Graph.edges :
         i < j => EdgeNotAfter(Graph.edges[i], Graph.edges[j])

\* C15: a build replaces every artifact or none: whenever no build is running,
\* the three files are those one build left, all written or all as before it.
C15_AllOrNothing ==
  pc = "idle" =>
    \/ <<backlinksJson, searchIndexJson, graphDataJson>> = prevArtifacts
    \/ /\ backlinksJson # NoFile /\ searchIndexJson # NoFile /\ graphDataJson # NoFile
       /\ BacklinkIndex = backlinks
       /\ Graph = [nodes |-> nodes, edges |-> edges]

\* C16: the build of an empty corpus goes on to its end at every step and
\* writes a graph with no node and no edge, an empty backlink index, and a
\* search index over no document with an empty store; it prints no warning.
C16_EmptyCorpusBuilds ==
  corpus = <<>> =>
    /\ pc # "idle" => ENABLED Next
    /\ BuildDone =>
         /\ backlinksJson # NoFile /\ BacklinkIndex = <<>>
         /\ searchIndexJson # NoFile
         /\ SearchData.index.documents = <<>> /\ SearchData.store = <<>>
         /\ Graph.nodes = <<>> /\ Graph.edges = <<>>
         /\ warnings = <<>>

\* The build of the empty corpus has ended.
C16_Witness == corpus = <<>> /\ BuildDone /\ searchIndexJson # NoFile

\* The references of a document to its own title, where that title resolves to
\* the document itself.
SelfReferences ==
  {p \in MarkerPlaces :
     /\ ToLowerCase(MarkerAt(p).text) = ToLowerCase(AllContent[p[1]].title)
     /\ ResolvedTarget(p) = SourceOf(p)}

NoOptionalText(e) == e.description = Undefined /\ e.summary = Undefined

\* The last entry of the corpus list with the slug.
LastWithSlug(slug) ==
  CHOOSE i \in DOMAIN AllContent :
    /\ AllContent[i].slug = slug
    /\ \A j \in DOMAIN AllContent : AllContent[j].slug = slug => j <= i

\* C18: generateSearchIndex takes a document without description and summary,
\* with or without text in its body: the script goes on to write its file, the
\* document is added to the index with the empty string as its description,
\* and the store has an entry under its identifier, with the empty string as
\* description when the entry is that of this document.
C18_MissingOptionalFieldsIndexed ==
  /\ (pc = "si" /\ \E i \in DOMAIN AllContent : NoOptionalText(AllContent[i]))
       => ENABLED GenerateSearchIndex
  /\ searchIndexJson # NoFile =>
       \A i \in DOMAIN AllContent :
         NoOptionalText(AllContent[i]) =>
           LET e == AllContent[i]
           IN /\ Len(SearchData.index.documents) = Len(AllContent)
              /\ SearchData.index.documents[i] =
                   [id |-> e.slug, title |-> e.title, description |-> "",
                    content |-> e.body]
              /\ StoreHas(SearchData.store, e.slug)
              /\ LastWithSlug(e.slug) = i =>
                   StoreGet(SearchData.store, e.slug).description = ""

\* The index is written for a document with no optional text and an empty
\* body, next to a document that gives its optional text.
C18_Witness ==
  /\ searchIndexJson # NoFile
  /\ \E i, j \in DOMAIN AllContent :
       /\ NoOptionalText(AllContent[i]) /\ AllContent[i].body = <<>>
       /\ DescriptionOf(AllContent[j]) = "about"
       /\ StoreHas(SearchData.store, AllContent[i].slug)

\* C19: the store of the search artifact has one entry for every document of
\* the corpus, under the identifier of the document and with its title and
\* its url, also when a note and a concept have the same slug.
C19_StoreEntryPerDocument ==
  searchIndexJson # NoFile =>
    /\ Len(SearchData.store) = Len(AllContent)
    /\ \A i \in DOMAIN AllContent :
         LET e == AllContent[i]
         IN \E k \in DOMAIN SearchData.store :
              /\ SearchData.store[k].key = e.slug
              /\ SearchData.store[k].value.title = e.title
              /\ SearchData.store[k].value.url = UrlOf(e.collection, e.slug)

\* C20: the Backlinks section of the page of a document lists the sources that
\* generateBacklinks recorded for the document: the key the layout computes
\* is the key the document's incoming links are stored under.
C20_BacklinksShownOnPage ==
  (page # NoPage /\ pc = "idle") =>
    \A a \in Slugs :
      BacklinkIn(BacklinkIndex, a, page.slug) <=> a \in Range(page.incomingLinks)

\* C21: in the backlink index no source is listed twice under one target, and
\* no target has two lists, however often the source references the target.
C21_SourceOncePerTarget ==
  backlinksJson # NoFile =>
    /\ \A k \in DOMAIN BacklinkIndex :
         \A i, j \in DOMAIN BacklinkIndex[k].sources :
           i # j => BacklinkIndex[k].sources[i] # BacklinkIndex[k].sources[j]
    /\ \A k, l \in DOMAIN BacklinkIndex :
         k # l => BacklinkIndex[k].key # BacklinkIndex[l].key

\* A finished build of a document that references one target twice.
C21_Witness ==
  /\ BuildDone
  /\ \E p, q \in MarkerPlaces :
       /\ p[1] = q[1] /\ p[2] < q[2]
       /\ Truthy(ResolvedTarget(p)) /\ ResolvedTarget(p) = ResolvedTarget(q)
       /\ BacklinkIn(BacklinkIndex, SourceOf(p), ResolvedTarget(p))

\* C23: the graph has one node for every document of the corpus and no two
\* nodes have the same id, also when a note and a concept have the same slug.
C23_OneNodePerDocumentDistinctIds ==
  BuildDone =>
    /\ Len(Graph.nodes) = Len(AllContent)
    /\ \A i \in DOMAIN AllContent :
         /\ Graph.nodes[i].id = AllContent[i].slug
         /\ Graph.nodes[i].group = AllContent[i].collection
    /\ \A i, j \in DOMAIN Graph.nodes : i # j => Graph.nodes[i].id # Graph.nodes[j].id

\* C24: the edge array of the graph holds at most one edge from a to b, also
\* when a references the title of b several times.
C24_EdgesFormASet ==
  BuildDone =>
    \A i, j \in DOMAIN Graph.edges :
      i # j => ~(/\ Graph.edges[i].from = Graph.edges[j].from
                 /\ Graph.edges[i].to = Graph.edges[j].to)

\* The theme of the latest click before event k, Null when there is none.
LastClickBefore(k) ==
  LET clicks == {j \in 1..(k - 1) : themeEvents[j].type = "click"}
  IN IF clicks = {} THEN Null
     ELSE themeEvents[CHOOSE j \in clicks : \A i \in clicks : i <= j].theme

\* C22: every page load that follows a toggle click applies the theme the most
\* recent click chose, and once a page has been loaded the class dark is on
\* <html> exactly when localStorage holds dark under the key theme.
C22_ThemePersists ==
  /\ \A k \in DOMAIN themeEvents :
       (themeEvents[k].type = "load" /\ LastClickBefore(k) # Null)
         => themeEvents[k].theme = LastClickBefore(k)
  /\ themeEvents # <<>> => (classListDark <=> localStorageTheme = "dark")

\* A page is loaded after a click chose the theme the system does not prefer
\* and the first visit did not find stored.
C22_Witness ==
  /\ Len(themeEvents) >= 3
  /\ themeEvents[1].type = "load"
  /\ themeEvents[2].type = "click"
  /\ themeEvents[2].theme # themeEvents[1].theme
  /\ themeEvents[Len(themeEvents)].type = "load"
  /\ themeEvents[Len(themeEvents)].theme = themeEvents[2].theme
  /\ prefersDark = (themeEvents[1].theme = "dark")
  /\ \A k \in 3..Len(themeEvents) : themeEvents[k].type = "load"

\* C25: the walk of remarkInternalLinks comes to its end: a call of the visitor
\* either changes the tree or moves the walk on.  A call that leaves both as
\* they were is followed by the same call again, without end.
C25_EveryVisitMakesProgress ==
  [][visits' # visits => (tree' # tree \/ cursor' # cursor)]_vars

\* The text a node stands for: its value, [[label]] for a link.
RECURSIVE FlattenNodes(_)
NodeText(node) ==
  IF node.type = "text" THEN node.value ELSE FullMatch(FlattenNodes(node.children))
FlattenNodes(children) ==
  IF children = <<>> THEN <<>>
  ELSE NodeText(Head(children)) \o FlattenNodes(Tail(children))

\* The text node of the input, the nodes that stand in its place, and where
\* in the text of the input each of them begins (counted from 1).
InputText == inputTree[Len(inputTree)].value
Replacing == SubSeq(tree, Len(inputTree), Len(tree))
BeginOf(i) == Len(FlattenNodes(SubSeq(Replacing, 1, i - 1))) + 1
Rewritten == visits > 0 /\ inputTree # <<>> /\ inputTree[Len(inputTree)].type = "text"

\* C26: once the text node is rewritten, the node at the place of a marker
\* whose lower-cased text is a key of slugMap is a link with url "/" + slug
\* and the text of the marker as its label; the node at the place of any other
\* marker is a text node equal to the whole marker; and there is no link but
\* at the place of a marker slugMap resolves.
C26_ResolvedLinkedUnresolvedKept ==
  Rewritten =>
    LET matches == ExecAll(InputText, 1)
        resolves(m) == ToLowerCase(matches[m].linkText) \in DOMAIN SlugMap
    IN /\ \A m \in DOMAIN matches :
            \E i \in DOMAIN Replacing :
              /\ BeginOf(i) = matches[m].start
              /\ Replacing[i] =
                   IF resolves(m)
                   THEN LinkNode("/" \o SlugMap[ToLowerCase(matches[m].linkText)],
                                 <<TextNode(matches[m].linkText)>>)
                   ELSE TextNode(FullMatch(matches[m].linkText))
       /\ \A i \in DOMAIN Replacing :
            Replacing[i].type = "link" =>
              \E m \in DOMAIN matches : resolves(m) /\ BeginOf(i) = matches[m].start

\* A rewritten text with a resolved marker, an unresolved one and plain text.
C26_Witness ==
  /\ Rewritten
  /\ \E i, j, k \in DOMAIN Replacing :
       /\ Replacing[i] = LinkNode("/notes/foo", <<TextNode(Foo)>>)
       /\ Replacing[j] = TextNode(FullMatch(<<"x">>))
       /\ Replacing[k] = TextNode(<<"x">>)

\* C27: the transform loses no text: the values of the nodes of the tree, a
\* link taken as [[ + label + ]], make up the text of the tree it was given.
C27_NoTextLost ==
  FlattenNodes(tree) = FlattenNodes(inputTree)

\* A text node has been replaced by several nodes, a link among them and a
\* text after the last marker.
C27_Witness ==
  /\ Rewritten
  /\ Len(Replacing) >= 3
  /\ \E i \in DOMAIN Replacing : Replacing[i].type = "link"
  /\ Replacing[Len(Replacing)].type = "text"
  /\ ExecAll(Replacing[Len(Replacing)].value, 1) = <<>>

\* C28: every backlink the Backlinks section of a page shows has the href
\* /<collection of the source>/<slug of the source>, the url that
\* generateGraphData records for the source, be it a note or a concept.
C28_BacklinkHrefIsSourceUrl ==
  (page # NoPage /\ graphDataJson # NoFile) =>
    \A k \in DOMAIN page.links :
      \E n \in DOMAIN Graph.nodes :
        /\ Graph.nodes[n].id = page.incomingLinks[k]
        /\ Graph.nodes[n].url = page.links[k].href

\* C29: the count the tags index page shows beside a tag is the number of
\* entries the page of that tag lists, also for a document that carries the
\* tag twice in different letter case.
C29_TagCountIsTagPageLength ==
  (tagsIndexPage.rendered /\ tagPage # NoTagPage) =>
    \A k \in DOMAIN tagsIndexPage.sortedTags :
      tagsIndexPage.sortedTags[k].tag = tagPage.tag
        => tagsIndexPage.sortedTags[k].count = Len(tagPage.filteredContent)

\* C30: once the index is loaded and no debounce timer is pending, an input
\* that holds a query of more than one character has the results of that
\* query under it: nothing but another input event changes the results from
\* there on, so that is what the visitor is left with.
C30_ResultsForCurrentQuery ==
  (searchIndex # <<>> /\ ~debounceTimeout /\ Len(Trim(searchInput)) > 1) =>
    searchResultsDiv =
      DisplayResults(LunrSearch(ContentOf(searchIndex).index, Trim(searchInput)),
                     ContentOf(searchIndex).store)

====
